---------------------------- MODULE Spec2Model ----------------------------
(***************************************************************************)
(* Exercise Repetition Counter (src/ERC_Code.py).                          *)
(*                                                                         *)
(* The program is one endless loop (lines 167-215).  One iteration polls   *)
(* the monotonic clock, runs the beep timeout check, the display gate,     *)
(* the reset-button edge detector and the sensor gate, in that order.      *)
(* Each of these five sections is one action; pc is the section the loop   *)
(* executes next.  Time is counted in milliseconds (the source holds       *)
(* seconds as floats: 0.002 s = 2, 0.1 s = 100, 0.3 s = 300).  The clock   *)
(* is the environment's.  The program observes it only through             *)
(* time.monotonic() (lines 158, 168, 171), so the time that passes between *)
(* two calls is added when the later call reads the clock.                 *)
(***************************************************************************)
EXTENDS Integers, Sequences, FiniteSets, TLC

VARIABLES
    clock,              \* value of the last time.monotonic() call
    pc,                 \* section of the loop body executed next
    now,                \* line 168
    counter,            \* line 74
    display_digits,     \* lines 75, 164, 210 (1-based here, 0-based in the source)
    current_digit,      \* line 76
    beep_active,        \* line 77
    beep_start_time,    \* line 78
    buzzer_frequency,   \* line 43, buzzer.frequency
    buzzer_duty_cycle,  \* line 43, buzzer.duty_cycle
    last_display_time,  \* line 82
    last_sensor_time,   \* line 86
    last_reset_state,   \* line 32
    last_pot_value,     \* line 36
    raw,                \* lines 163, 191: last raw potentiometer reading
    object_inside,      \* line 40
    digits,             \* lines 46-50: the four digit-select pin values
    segments,           \* lines 52-56: the seven segment pin values
    \* History of the run, read by the properties only:
    sonar_result,       \* what the last pass through the sensor section did
    beep_timed_out,     \* the beep check of this iteration silenced the tone
    run_ticks,          \* successful reads in a row with distance <= threshold
    run_incs,           \* increments of counter made by the ticks of that run
    zone_entries,       \* entries of the zone seen by successful reads since the last reset
    hold_len,           \* loop iterations in a row that sampled reset pressed
    hold_resets,        \* resets fired by the iterations of that hold
    last_shown,         \* position the last refresh_display call served, -1: none yet
    fail_streak,        \* sonar reads in a row that raised RuntimeError
    tone_start,         \* clock value at which the sounding tone began
    args                \* arguments of the last direct call of a pure function

prog == <<now, counter, display_digits, current_digit, beep_active,
          beep_start_time, buzzer_frequency, buzzer_duty_cycle,
          last_display_time, last_sensor_time, last_reset_state,
          last_pot_value, raw, object_inside, digits, segments>>
hist == <<sonar_result, beep_timed_out, run_ticks, run_incs, zone_entries,
          hold_len, hold_resets, last_shown>>
aux == <<fail_streak, tone_start, args>>
vars == <<clock, pc, prog, hist, aux>>

---------------------------------------------------------------------------
(* Bounds of the model *)

\* the clock is not read past this value (ms)
MaxTime == 400
\* hold_len saturates here
MaxHold == 5
\* fail_streak saturates here
MaxStreak == 2
\* repetitions already counted when the late run starts
LateCount == 98

\* the values time.monotonic() returns: around every multiple of 100 ms, so
\* that each interval is met exactly (0 -> 100, 100 -> 102), missed by 1 ms
\* (0 -> 99, 99 -> 100) and exceeded (99 -> 102); and the last instant
Instants == {t \in 0..MaxTime : t % 100 \in {0, 2, 99}} \cup {MaxTime}
\* raw readings of the 16-bit analog input (line 132)
PotValues == {0, 65535}
\* sonar.distance, in 1/100 cm
Distances == {500, 508, 509, 9347, 9348}

---------------------------------------------------------------------------
(* Program constants *)

DISPLAY_INTERVAL == 2
SENSOR_INTERVAL == 100
beep_duration == 300
pot_tolerance == 1000
BEEP_FREQUENCY == 4000
BEEP_DUTY == 32768
BLANK == -1

Min(a, b) == IF a < b THEN a ELSE b
Max(a, b) == IF a > b THEN a ELSE b
Abs(a) == IF a < 0 THEN -a ELSE a

\* lines 59-71, segments a..g, 0 = ON, 1 = OFF
digit_patterns(d) ==
    CASE d = 0 -> <<0, 0, 0, 0, 0, 0, 1>>
      [] d = 1 -> <<1, 0, 0, 1, 1, 1, 1>>
      [] d = 2 -> <<0, 0, 1, 0, 0, 1, 0>>
      [] d = 3 -> <<0, 0, 0, 0, 1, 1, 0>>
      [] d = 4 -> <<1, 0, 0, 1, 1, 0, 0>>
      [] d = 5 -> <<0, 1, 0, 0, 1, 0, 0>>
      [] d = 6 -> <<0, 1, 0, 0, 0, 0, 0>>
      [] d = 7 -> <<0, 0, 0, 1, 1, 1, 1>>
      [] d = 8 -> <<0, 0, 0, 0, 0, 0, 0>>
      [] d = 9 -> <<0, 0, 0, 0, 1, 0, 0>>

---------------------------------------------------------------------------
(* Pure functions *)

\* lines 93-108 without the reduction of line 94
update_display_digits_NoWrap(v) ==
    LET val == v
        t   == val \div 1000
        h   == (val % 1000) \div 100
        te  == (val % 100) \div 10
        o   == val % 10
    IN  IF val < 10 THEN <<BLANK, BLANK, BLANK, o>>
        ELSE IF val < 100 THEN <<BLANK, BLANK, te, o>>
        ELSE IF val < 1000 THEN <<BLANK, h, te, o>>
        ELSE <<t, h, te, o>>

\* lines 93-108
update_display_digits(v) ==
    LET val == v % 10000
        t   == val \div 1000
        h   == (val % 1000) \div 100
        te  == (val % 100) \div 10
        o   == val % 10
    IN  IF val < 10 THEN <<BLANK, BLANK, BLANK, o>>
        ELSE IF val < 100 THEN <<BLANK, BLANK, te, o>>
        ELSE IF val < 1000 THEN <<BLANK, h, te, o>>
        ELSE <<t, h, te, o>>

(***************************************************************************)
(* get_pot_value, lines 131-135.  threshold_cm = 5 + raw/65535 * 87 and    *)
(* threshold_in = threshold_cm / 2.5, that is 2 + 58*raw/109225 inches     *)
(* (87/2.5/65535 = 58/109225).  The model keeps the exact rational as its  *)
(* numerator over THRESHOLD_DEN.                                           *)
(***************************************************************************)
THRESHOLD_DEN == (5 * 65535) \div 3
threshold_in(r) == 2 * THRESHOLD_DEN + 58 * r

\* Python's int() of the rational n / THRESHOLD_DEN: truncation toward zero
IntOf(n) == IF n >= 0 THEN n \div THRESHOLD_DEN ELSE -((-n) \div THRESHOLD_DEN)

\* lines 138-151 with the leading zero of each field blanked, as lines
\* 101-102 do
combine_threshold_and_counter_Blanking(threshold, cnt) ==
    LET t == Max(0, Min(IntOf(threshold), 99))
        c == Max(0, Min(cnt, 99))
    IN  <<IF t < 10 THEN BLANK ELSE t \div 10, t % 10,
          IF c < 10 THEN BLANK ELSE c \div 10, c % 10>>

\* lines 138-151 with min(.., 99) only, without the max(0, ..) of lines 143-144
combine_threshold_and_counter_NoFloor(threshold, cnt) ==
    LET t == Min(IntOf(threshold), 99)
        c == Min(cnt, 99)
    IN  <<t \div 10, t % 10, c \div 10, c % 10>>

\* lines 138-151; threshold is a numerator over THRESHOLD_DEN, cnt an integer
combine_threshold_and_counter(threshold, cnt) ==
    LET t == Max(0, Min(IntOf(threshold), 99))
        c == Max(0, Min(cnt, 99))
    IN  <<t \div 10, t % 10, c \div 10, c % 10>>

(***************************************************************************)
(* lines 197-198: threshold_cm = threshold * 2.54, detected = distance <=  *)
(* threshold_cm.  With the distance d in 1/100 cm:                         *)
(*   d/100 <= 2.54 * n/THRESHOLD_DEN  <=>  d * THRESHOLD_DEN <= 254 * n    *)
(***************************************************************************)
Detected(d, r) == d * THRESHOLD_DEN <= 254 * threshold_in(r)


---------------------------------------------------------------------------
(* State after lines 1-165 *)

\* no pure function has been called directly
NoCall == [fn |-> "none", a |-> 0, b |-> 0]

Init ==
    /\ clock = 0
    /\ pc = "poll"
    /\ now = 0
    /\ counter = 0
    /\ raw \in PotValues
    /\ display_digits = combine_threshold_and_counter(threshold_in(raw), 0)
    /\ current_digit = 0
    /\ beep_active = FALSE
    /\ beep_start_time = 0
    /\ buzzer_frequency = 440
    /\ buzzer_duty_cycle = 0
    /\ last_display_time = 0
    /\ last_sensor_time = 0
    /\ last_reset_state = TRUE
    /\ last_pot_value = -1
    /\ object_inside = FALSE
    /\ digits = [i \in 1..4 |-> FALSE]
    /\ segments = [i \in 1..7 |-> TRUE]
    /\ sonar_result = "none"
    /\ beep_timed_out = FALSE
    /\ run_ticks = 0
    /\ run_incs = 0
    /\ zone_entries = 0
    /\ hold_len = 0
    /\ hold_resets = 0
    /\ last_shown = -1
    /\ fail_streak = 0
    /\ tone_start = 0
    /\ args = NoCall

---------------------------------------------------------------------------
(* time.monotonic(): returns t, not less than any value returned before *)

monotonic(t) ==
    /\ t \in Instants
    /\ t >= clock
    /\ clock' = t

---------------------------------------------------------------------------
(* The loop body, lines 167-215 *)

\* line 168
Poll ==
    /\ pc = "poll"
    /\ \E t \in Instants :
          /\ monotonic(t)
          /\ now' = t
    /\ pc' = "beep"
    /\ UNCHANGED aux
    /\ UNCHANGED <<counter, display_digits, current_digit, beep_active,
                   beep_start_time, buzzer_frequency, buzzer_duty_cycle,
                   last_display_time, last_sensor_time, last_reset_state,
                   last_pot_value, raw, object_inside, digits, segments, hist>>

\* the comparison of line 171 written with > for >=
BeepExpired_Strict(t) == t - beep_start_time > beep_duration

\* line 171, t the value time.monotonic() returns there
BeepExpired(t) == t - beep_start_time >= beep_duration

\* lines 170-173; the clock is read only when a beep is active
BeepCheck ==
    /\ pc = "beep"
    /\ IF beep_active
         THEN \E t \in Instants :
                 /\ monotonic(t)
                 /\ IF BeepExpired(t)
                      THEN /\ buzzer_duty_cycle' = 0
                           /\ beep_active' = FALSE
                           /\ beep_timed_out' = TRUE
                      ELSE /\ UNCHANGED <<buzzer_duty_cycle, beep_active>>
                           /\ beep_timed_out' = FALSE
         ELSE /\ UNCHANGED <<clock, buzzer_duty_cycle, beep_active>>
              /\ beep_timed_out' = FALSE
    /\ pc' = "display"
    /\ UNCHANGED aux
    /\ UNCHANGED <<now, counter, display_digits, current_digit,
                   beep_start_time, buzzer_frequency, last_display_time,
                   last_sensor_time, last_reset_state, last_pot_value, raw,
                   object_inside, digits, segments, sonar_result, run_ticks,
                   run_incs, zone_entries, hold_len, hold_resets, last_shown>>

\* line 128 wrapping one position early
NextDigit_Mod3(cd) == (cd + 1) % 3

\* line 128
NextDigit(cd) == (cd + 1) % 4

\* lines 111-128 without lines 114-119: the outputs of the previous call
\* are not turned off first
refresh_display_NoClear ==
    LET val == display_digits[current_digit + 1]
    IN  /\ digits' = IF val # BLANK
                        THEN [digits EXCEPT ![current_digit + 1] = TRUE]
                        ELSE digits
        /\ segments' = IF val # BLANK
                          THEN [i \in 1..7 |-> digit_patterns(val)[i] = 1]
                          ELSE segments
        /\ current_digit' = NextDigit(current_digit)
        /\ last_shown' = current_digit

\* lines 111-128; display_digits[current_digit] of the source is dd[cd + 1]
refresh_display ==
    LET val == display_digits[current_digit + 1]
    IN  /\ digits' = [i \in 1..4 |-> val # BLANK /\ i = current_digit + 1]
        /\ segments' = [i \in 1..7 |->
                           IF val # BLANK THEN digit_patterns(val)[i] = 1
                                          ELSE TRUE]
        /\ current_digit' = NextDigit(current_digit)
        /\ last_shown' = current_digit

\* the comparison of line 176 written with > for >=
DisplayDue_Strict == now - last_display_time > DISPLAY_INTERVAL

\* line 176
DisplayDue == now - last_display_time >= DISPLAY_INTERVAL

\* lines 176-178
DisplayGate ==
    /\ pc = "display"
    /\ IF DisplayDue
         THEN /\ refresh_display
              /\ last_display_time' = now
         ELSE UNCHANGED <<digits, segments, current_digit, last_display_time,
                          last_shown>>
    /\ pc' = "reset"
    /\ UNCHANGED aux
    /\ UNCHANGED <<clock, now, counter, display_digits, beep_active,
                   beep_start_time, buzzer_frequency, buzzer_duty_cycle,
                   last_sensor_time, last_reset_state, last_pot_value, raw,
                   object_inside, sonar_result, beep_timed_out, run_ticks,
                   run_incs, zone_entries, hold_len, hold_resets>>

\* line 182 without the previous sample: fires on the level, not on the edge
ResetEdge_Level(reset_state) == ~reset_state

\* line 182 with the polarity swapped: fires when the button is released
ResetEdge_Rising(reset_state) == reset_state /\ ~last_reset_state

\* line 182; reset_state is the pin level: FALSE = pressed (pull-up, line 31)
ResetEdge(reset_state) == ~reset_state /\ last_reset_state

\* lines 181-185 with the detection state cleared along with the counter
ResetButton_ClearsState ==
    /\ pc = "reset"
    /\ \E reset_state \in BOOLEAN :
          LET fired == ResetEdge(reset_state)
              held  == IF ~reset_state /\ hold_len > 0 THEN hold_resets ELSE 0
          IN  /\ counter' = IF fired THEN 0 ELSE counter
              /\ last_reset_state' = reset_state
              /\ object_inside' = IF fired THEN FALSE ELSE object_inside
              /\ zone_entries' = IF fired THEN 0 ELSE zone_entries
              /\ hold_len' = IF reset_state THEN 0 ELSE Min(hold_len + 1, MaxHold)
              /\ hold_resets' = held + (IF fired THEN 1 ELSE 0)
    /\ pc' = "sensor"
    /\ UNCHANGED aux
    /\ UNCHANGED <<clock, now, display_digits, current_digit, beep_active,
                   beep_start_time, buzzer_frequency, buzzer_duty_cycle,
                   last_display_time, last_sensor_time, last_pot_value, raw,
                   digits, segments, sonar_result,
                   beep_timed_out, run_ticks, run_incs, last_shown>>

\* lines 181-185
ResetButton ==
    /\ pc = "reset"
    /\ \E reset_state \in BOOLEAN :
          LET fired == ResetEdge(reset_state)
              held  == IF ~reset_state /\ hold_len > 0 THEN hold_resets ELSE 0
          IN  /\ counter' = IF fired THEN 0 ELSE counter
              /\ last_reset_state' = reset_state
              /\ zone_entries' = IF fired THEN 0 ELSE zone_entries
              /\ hold_len' = IF reset_state THEN 0 ELSE Min(hold_len + 1, MaxHold)
              /\ hold_resets' = held + (IF fired THEN 1 ELSE 0)
    /\ pc' = "sensor"
    /\ UNCHANGED aux
    /\ UNCHANGED <<clock, now, display_digits, current_digit, beep_active,
                   beep_start_time, buzzer_frequency, buzzer_duty_cycle,
                   last_display_time, last_sensor_time, last_pot_value, raw,
                   object_inside, digits, segments, sonar_result,
                   beep_timed_out, run_ticks, run_incs, last_shown>>

\* lines 154-159 without line 157: the tone output is not switched on
start_beep_NoDuty(frequency) ==
    /\ buzzer_frequency' = frequency
    /\ UNCHANGED buzzer_duty_cycle
    /\ \E t \in Instants :
          /\ monotonic(t)
          /\ beep_start_time' = t
          /\ tone_start' = IF beep_active THEN tone_start ELSE t
    /\ beep_active' = TRUE

\* lines 154-159
start_beep(frequency) ==
    /\ buzzer_frequency' = frequency
    /\ buzzer_duty_cycle' = BEEP_DUTY
    /\ \E t \in Instants :
          /\ monotonic(t)
          /\ beep_start_time' = t
          /\ tone_start' = IF beep_active THEN tone_start ELSE t
    /\ beep_active' = TRUE

\* line 188
SensorDue == now - last_sensor_time >= SENSOR_INTERVAL

\* line 188, the gate is closed: nothing of lines 189-215 runs
SensorSkip ==
    /\ pc = "sensor"
    /\ ~SensorDue
    /\ sonar_result' = "skipped"
    /\ pc' = "poll"
    /\ UNCHANGED aux
    /\ UNCHANGED <<clock, prog, beep_timed_out, run_ticks, run_incs,
                   zone_entries, hold_len, hold_resets, last_shown>>

\* lines 212-213 handling the failed read as a read of "nothing in range"
SensorFail_AsFarReading ==
    /\ pc = "sensor"
    /\ SensorDue
    /\ object_inside' = FALSE
    /\ last_sensor_time' = now
    /\ sonar_result' = "RuntimeError"
    /\ fail_streak' = Min(fail_streak + 1, MaxStreak)
    /\ pc' = "poll"
    /\ UNCHANGED <<tone_start, args>>
    /\ UNCHANGED <<clock, now, counter, display_digits, current_digit,
                   beep_active, beep_start_time, buzzer_frequency,
                   buzzer_duty_cycle, last_display_time, last_reset_state,
                   last_pot_value, raw, digits, segments,
                   beep_timed_out, run_ticks, run_incs, zone_entries,
                   hold_len, hold_resets, last_shown>>

\* lines 189-190, 212-213 with line 215 inside the try block: a failed read
\* leaves last_sensor_time alone
SensorFail_NoTimestamp ==
    /\ pc = "sensor"
    /\ SensorDue
    /\ UNCHANGED last_sensor_time
    /\ sonar_result' = "RuntimeError"
    /\ fail_streak' = Min(fail_streak + 1, MaxStreak)
    /\ pc' = "poll"
    /\ UNCHANGED <<tone_start, args>>
    /\ UNCHANGED <<clock, now, counter, display_digits, current_digit,
                   beep_active, beep_start_time, buzzer_frequency,
                   buzzer_duty_cycle, last_display_time, last_reset_state,
                   last_pot_value, raw, object_inside, digits, segments,
                   beep_timed_out, run_ticks, run_incs, zone_entries,
                   hold_len, hold_resets, last_shown>>

\* lines 189-190, 212-215: sonar.distance raises RuntimeError
SensorFail ==
    /\ pc = "sensor"
    /\ SensorDue
    /\ last_sensor_time' = now
    /\ sonar_result' = "RuntimeError"
    /\ fail_streak' = Min(fail_streak + 1, MaxStreak)
    /\ pc' = "poll"
    /\ UNCHANGED <<tone_start, args>>
    /\ UNCHANGED <<clock, now, counter, display_digits, current_digit,
                   beep_active, beep_start_time, buzzer_frequency,
                   buzzer_duty_cycle, last_display_time, last_reset_state,
                   last_pot_value, raw, object_inside, digits, segments,
                   beep_timed_out, run_ticks, run_incs, zone_entries,
                   hold_len, hold_resets, last_shown>>

\* line 200 without the hysteresis: every read inside the zone counts
CountingEdge_EveryTick(detected) == detected

\* line 200
CountingEdge(detected) == detected /\ ~object_inside

\* line 206 never taken: the zone is never left
LeavingEdge_Never(detected) == FALSE

\* line 206
LeavingEdge(detected) == ~detected /\ object_inside

\* lines 204, 207 without line 204: the entry is not remembered
InsideAfter_NoLatch(detected) ==
    IF LeavingEdge(detected) THEN FALSE ELSE object_inside

\* lines 204, 207: object_inside after the tick
InsideAfter(detected) ==
    IF CountingEdge(detected) THEN TRUE
    ELSE IF LeavingEdge(detected) THEN FALSE
    ELSE object_inside

\* lines 189-210, 215 with line 210 moved under the change gate of line 193
SensorOk_GatedDisplay ==
    /\ pc = "sensor"
    /\ SensorDue
    /\ \E distance \in Distances, r \in PotValues :
          LET detected == Detected(distance, r)
          IN  /\ raw' = r
              /\ last_pot_value' = IF Abs(r - last_pot_value) > pot_tolerance
                                     THEN r ELSE last_pot_value
              /\ IF CountingEdge(detected)
                   THEN /\ counter' = counter + 1
                        /\ start_beep(BEEP_FREQUENCY)
                   ELSE UNCHANGED <<clock, counter, buzzer_frequency,
                                    buzzer_duty_cycle, beep_start_time,
                                    beep_active, tone_start>>
              /\ object_inside' = InsideAfter(detected)
              /\ display_digits' =
                    IF Abs(r - last_pot_value) > pot_tolerance
                      THEN combine_threshold_and_counter(threshold_in(r),
                                                         counter')
                      ELSE display_digits
              /\ run_ticks' = IF detected THEN run_ticks + 1 ELSE 0
              /\ run_incs' = IF detected
                               THEN (IF run_ticks = 0 THEN 0 ELSE run_incs)
                                    + (counter' - counter)
                               ELSE 0
              /\ zone_entries' = IF detected /\ run_ticks = 0
                                   THEN zone_entries + 1 ELSE zone_entries
    /\ last_sensor_time' = now
    /\ sonar_result' = "ok"
    /\ fail_streak' = 0
    /\ pc' = "poll"
    /\ UNCHANGED args
    /\ UNCHANGED <<now, current_digit, last_display_time,
                   last_reset_state, digits, segments, beep_timed_out,
                   hold_len, hold_resets, last_shown>>

\* lines 189-210, 215: the read returns distance (1/100 cm), the potentiometer r
SensorOk ==
    /\ pc = "sensor"
    /\ SensorDue
    /\ \E distance \in Distances, r \in PotValues :
          LET detected == Detected(distance, r)
          IN  /\ raw' = r
              /\ last_pot_value' = IF Abs(r - last_pot_value) > pot_tolerance
                                     THEN r ELSE last_pot_value
              /\ IF CountingEdge(detected)
                   THEN /\ counter' = counter + 1
                        /\ start_beep(BEEP_FREQUENCY)
                   ELSE UNCHANGED <<clock, counter, buzzer_frequency,
                                    buzzer_duty_cycle, beep_start_time,
                                    beep_active, tone_start>>
              /\ object_inside' = InsideAfter(detected)
              /\ display_digits' =
                    combine_threshold_and_counter(threshold_in(r), counter')
              /\ run_ticks' = IF detected THEN run_ticks + 1 ELSE 0
              /\ run_incs' = IF detected
                               THEN (IF run_ticks = 0 THEN 0 ELSE run_incs)
                                    + (counter' - counter)
                               ELSE 0
              /\ zone_entries' = IF detected /\ run_ticks = 0
                                   THEN zone_entries + 1 ELSE zone_entries
    /\ last_sensor_time' = now
    /\ sonar_result' = "ok"
    /\ fail_streak' = 0
    /\ pc' = "poll"
    /\ UNCHANGED args
    /\ UNCHANGED <<now, current_digit, last_display_time,
                   last_reset_state, digits, segments, beep_timed_out,
                   hold_len, hold_resets, last_shown>>

Next ==
    \/ Poll
    \/ BeepCheck
    \/ DisplayGate
    \/ ResetButton
    \/ SensorSkip
    \/ SensorFail
    \/ SensorOk

Spec == Init /\ [][Next]_vars

(***************************************************************************)
(* The loop picked up after LateCount repetitions have been counted: the   *)
(* object is out of the zone, the last beep is over (lines 172-175), the   *)
(* last tick has reported the potentiometer (line 195) and packed the      *)
(* display (line 210).  Times are relative to that moment.                 *)
(***************************************************************************)
InitLate ==
    /\ clock = 0
    /\ pc = "poll"
    /\ now = 0
    /\ counter = LateCount
    /\ raw \in PotValues
    /\ display_digits = combine_threshold_and_counter(threshold_in(raw), counter)
    /\ current_digit = 0
    /\ beep_active = FALSE
    /\ beep_start_time = 0
    /\ buzzer_frequency = BEEP_FREQUENCY
    /\ buzzer_duty_cycle = 0
    /\ last_display_time = 0
    /\ last_sensor_time = 0
    /\ last_reset_state = TRUE
    /\ last_pot_value = raw
    /\ object_inside = FALSE
    /\ digits = [i \in 1..4 |-> FALSE]
    /\ segments = [i \in 1..7 |-> TRUE]
    /\ sonar_result = "none"
    /\ beep_timed_out = FALSE
    /\ run_ticks = 0
    /\ run_incs = 0
    /\ zone_entries = LateCount
    /\ hold_len = 0
    /\ hold_resets = 0
    /\ last_shown = -1
    /\ fail_streak = 0
    /\ tone_start = 0
    /\ args = NoCall

SpecLate == InitLate /\ [][Next]_vars

---------------------------------------------------------------------------
(***************************************************************************)
(* The display multiplexer on its own: refresh_display (lines 111-128)     *)
(* called over and over on every content display_digits can be given, by   *)
(* the packer (lines 138-151) or by the blanking encoder (lines 93-108).   *)
(***************************************************************************)

\* values handed to update_display_digits
EncoderInputs == {0, 7, 10, 42, 99, 100, 305, 1000, 4096, 9999, 10007}
\* counter values handed to combine_threshold_and_counter
PackerCounters == {0, 7, 10, 42, 99, 100}

DisplayContents ==
    {update_display_digits(v) : v \in EncoderInputs}
    \cup {combine_threshold_and_counter(threshold_in(r), c) :
              r \in PotValues, c \in PackerCounters}

InitDisplay ==
    /\ clock = 0
    /\ pc = "poll"
    /\ now = 0
    /\ counter = 0
    /\ raw \in PotValues
    /\ display_digits \in DisplayContents
    /\ current_digit = 0
    /\ beep_active = FALSE
    /\ beep_start_time = 0
    /\ buzzer_frequency = 440
    /\ buzzer_duty_cycle = 0
    /\ last_display_time = 0
    /\ last_sensor_time = 0
    /\ last_reset_state = TRUE
    /\ last_pot_value = -1
    /\ object_inside = FALSE
    /\ digits = [i \in 1..4 |-> FALSE]
    /\ segments = [i \in 1..7 |-> TRUE]
    /\ sonar_result = "none"
    /\ beep_timed_out = FALSE
    /\ run_ticks = 0
    /\ run_incs = 0
    /\ zone_entries = 0
    /\ hold_len = 0
    /\ hold_resets = 0
    /\ last_shown = -1
    /\ fail_streak = 0
    /\ tone_start = 0
    /\ args = NoCall

\* one call of refresh_display
RefreshCall ==
    /\ refresh_display
    /\ UNCHANGED aux
    /\ UNCHANGED <<clock, pc, now, counter, display_digits, beep_active,
                   beep_start_time, buzzer_frequency, buzzer_duty_cycle,
                   last_display_time, last_sensor_time, last_reset_state,
                   last_pot_value, raw, object_inside, sonar_result,
                   beep_timed_out, run_ticks, run_incs, zone_entries,
                   hold_len, hold_resets>>

NextDisplay == RefreshCall

SpecDisplay == InitDisplay /\ [][NextDisplay]_vars

---------------------------------------------------------------------------
(***************************************************************************)
(* The pure functions called on their own, on arguments the running loop   *)
(* does not produce (negative and large values).  args records the last    *)
(* call; the digits returned are left in display_digits, the outcome of    *)
(* the detection comparison in object_inside.                              *)
(***************************************************************************)

\* arguments of combine_threshold_and_counter: below, inside and above 0..99
PackInputs == {-100, -1, 0, 1, 9, 10, 55, 98, 99, 100, 101, 1000}
\* arguments of update_display_digits: around every power of ten and the wrap
EncodeInputs ==
    (-12..12) \cup (95..105) \cup (995..1005) \cup (9995..10005)
        \cup {-10000, -9999, -1000, 4096, 12345, 20000}
\* sonar.distance, in 1/100 cm, around the endpoints of the threshold range
DetectDistances == Distances \cup {499, 501, 9199, 9200, 9201}

\* everything the three calls leave alone
FunctionFrame ==
    UNCHANGED <<clock, pc, now, counter, current_digit, beep_active,
                beep_start_time, buzzer_frequency, buzzer_duty_cycle,
                last_display_time, last_sensor_time, last_reset_state,
                last_pot_value, raw, digits, segments, hist, fail_streak,
                tone_start>>

\* combine_threshold_and_counter(t, c) on integers, lines 138-151
PackCall ==
    \E t \in PackInputs, c \in PackInputs :
        /\ display_digits' = combine_threshold_and_counter(t * THRESHOLD_DEN, c)
        /\ args' = [fn |-> "pack", a |-> t, b |-> c]
        /\ UNCHANGED object_inside
        /\ FunctionFrame

\* update_display_digits(v), lines 93-108
EncodeCall ==
    \E v \in EncodeInputs :
        /\ display_digits' = update_display_digits(v)
        /\ args' = [fn |-> "encode", a |-> v, b |-> 0]
        /\ UNCHANGED object_inside
        /\ FunctionFrame

\* lines 192 and 197-207: the threshold of raw reading r against distance d
DetectCall ==
    \E r \in PotValues, d \in DetectDistances :
        /\ object_inside' = InsideAfter(Detected(d, r))
        /\ args' = [fn |-> "detect", a |-> r, b |-> d]
        /\ UNCHANGED display_digits
        /\ FunctionFrame

NextFunctions == PackCall \/ EncodeCall \/ DetectCall

SpecFunctions == Init /\ [][NextFunctions]_vars


---------------------------------------------------------------------------
(* Properties *)

TypeOK ==
    /\ clock \in Instants /\ now \in Instants /\ now <= clock
    /\ pc \in {"poll", "beep", "display", "reset", "sensor"}
    /\ counter \in Nat
    /\ current_digit \in 0..3
    /\ beep_active \in BOOLEAN /\ object_inside \in BOOLEAN
    /\ last_reset_state \in BOOLEAN
    /\ beep_start_time \in Instants
    /\ last_display_time \in Instants /\ last_sensor_time \in Instants
    /\ raw \in PotValues /\ last_pot_value \in PotValues \cup {-1}
    /\ sonar_result \in {"none", "skipped", "ok", "RuntimeError"}

\* a step of the sensor section that counts a repetition
CountStep ==
    /\ pc = "sensor" /\ pc' = "poll"
    /\ ~object_inside /\ object_inside'
    /\ counter' = counter + 1

\* a step of the reset section taken on a falling edge of the input
ResetStep ==
    /\ pc = "reset" /\ pc' = "sensor"
    /\ last_reset_state /\ ~last_reset_state'

(***************************************************************************)
(* C1.  RepetitionCount is never negative.  Every step that changes it is  *)
(* either a sensor tick that takes object_inside from FALSE to TRUE and    *)
(* adds exactly 1, or a reset step on a falling edge that sets it to 0;    *)
(* and every step that takes object_inside from FALSE to TRUE adds 1.      *)
(***************************************************************************)
C1_CounterChanges ==
    /\ [](counter >= 0)
    /\ [][counter' # counter => (CountStep \/ (ResetStep /\ counter' = 0))]_vars
    /\ [][(~object_inside /\ object_inside') => CountStep]_vars

\* a repetition was counted and shown (counter field 0,1), and a reset has
\* just lowered the counter to 0
C1_Witness ==
    /\ pc = "sensor"
    /\ hold_len = 1 /\ hold_resets = 1
    /\ counter = 0 /\ display_digits[4] = 1
    /\ buzzer_frequency = BEEP_FREQUENCY

(***************************************************************************)
(* C2.  A run of N >= 1 successful sensor ticks in a row that all read a   *)
(* distance <= threshold (a run starts from Outside: at the start, or      *)
(* after a tick that read a distance > threshold) has incremented the      *)
(* counter exactly once, after its first tick and after every later one.   *)
(***************************************************************************)
C2_OneIncrementPerRun ==
    /\ run_ticks >= 1 => run_incs = 1
    /\ run_ticks = 0 => run_incs = 0

\* a run of three ticks inside the zone, counted once
C2_Witness == run_ticks = 3 /\ run_incs = 1 /\ counter = 1 /\ object_inside

(***************************************************************************)
(* C3.  With no reset, the counter equals the number of times the          *)
(* successful reads entered the zone (a read <= threshold that follows the *)
(* start or a read > threshold): K entries give exactly K increments.      *)
(* zone_entries restarts at 0 with every reset, as the counter does.       *)
(***************************************************************************)
C3_EntriesCounted == counter = zone_entries

\* in, out, in: two entries, two increments, and no reset pressed so far
C3_Witness ==
    /\ zone_entries = 2 /\ counter = 2
    /\ run_ticks = 1
    /\ last_reset_state /\ hold_resets = 0

\* a step of the sensor section in which sonar.distance raised RuntimeError
FailedTick == pc = "sensor" /\ pc' = "poll" /\ sonar_result' = "RuntimeError"

(***************************************************************************)
(* C4.  A sensor tick whose distance read raises RuntimeError changes      *)
(* neither the counter, nor object_inside, nor display_digits, nor the     *)
(* threshold (raw and the last reported raw value), nor the beep state     *)
(* (active flag, start time, tone frequency and duty cycle).               *)
(***************************************************************************)
C4_FailedTickFrame ==
    [][FailedTick => UNCHANGED <<counter, object_inside, display_digits, raw,
                                 last_pot_value, beep_active, beep_start_time,
                                 buzzer_frequency, buzzer_duty_cycle>>]_vars

\* a read failed while the object was inside the zone and the beep sounding
C4_Witness ==
    /\ pc = "poll" /\ sonar_result = "RuntimeError"
    /\ last_sensor_time = now
    /\ object_inside /\ beep_active /\ counter = 1


\* a counting edge: the sensor step that calls start_beep (lines 200-204)
StartRequest == pc = "sensor" /\ pc' = "poll" /\ ~object_inside /\ object_inside'

(***************************************************************************)
(* C5.  A beep start request issued while a beep is active is a no-op: it  *)
(* changes neither the start timestamp, nor the tone frequency, nor the    *)
(* active flag.                                                            *)
(***************************************************************************)
C5_StartWhileActiveIsNoOp ==
    [][(StartRequest /\ beep_active) =>
           UNCHANGED <<beep_start_time, buzzer_frequency, beep_active>>]_vars

(***************************************************************************)
(* C6.  Every iteration passes through the beep check, right after the     *)
(* clock poll.  If the beep is active there and now - beep_start_time >=   *)
(* beep_duration, the check sets the duty cycle to 0 and clears            *)
(* beep_active, before and whatever the display gate, the reset section    *)
(* and the sensor gate of that iteration do.                               *)
(***************************************************************************)
C6_BeepTimeoutEveryIteration ==
    /\ [][pc = "poll" => pc' = "beep"]_vars
    /\ [][(pc = "beep" /\ beep_active /\ now - beep_start_time >= beep_duration)
             => (pc' = "display" /\ ~beep_active' /\ buzzer_duty_cycle' = 0)]_vars

\* the tone timed out exactly 300 ms after its start, in an iteration that
\* also refreshed the display, fired a reset and ran a successful sensor tick
C6_Witness ==
    /\ pc = "poll" /\ beep_timed_out
    /\ now = beep_start_time + beep_duration
    /\ ~beep_active /\ buzzer_duty_cycle = 0
    /\ last_display_time = now
    /\ hold_len = 1 /\ hold_resets = 1
    /\ last_sensor_time = now /\ sonar_result = "ok"

(***************************************************************************)
(* C7.  While the reset input has been sampled pressed in n >= 1           *)
(* iterations in a row, exactly one reset has fired in them (so it fired   *)
(* in the first, and none fires again before a released sample ends the    *)
(* hold); an iteration that samples the input released fires none.         *)
(***************************************************************************)
C7_OneResetPerHold ==
    /\ hold_len >= 1 => hold_resets = 1
    /\ hold_len = 0 => hold_resets = 0
    /\ (hold_len = 0) = last_reset_state

\* the input held over five iterations: one reset
C7_Witness == hold_len = 5 /\ hold_resets = 1 /\ ~last_reset_state

\* a reset step that fires with a positive counter
ResetFires == ResetStep /\ counter > 0

(***************************************************************************)
(* C8, as claimed.  When a reset fires with the counter positive, the      *)
(* counter becomes 0 and the counter field of display_digits reads 0,0.    *)
(***************************************************************************)
C8_ResetShowsZero ==
    [][ResetFires => (counter' = 0 /\ display_digits'[3] = 0
                                   /\ display_digits'[4] = 0)]_vars

\* a successful sensor tick, the only writer of display_digits (line 210)
SuccessfulTick == pc = "sensor" /\ pc' = "poll" /\ sonar_result' = "ok"

(***************************************************************************)
(* C8, amended.  When a reset fires with the counter positive, the counter *)
(* becomes 0 and display_digits is left as it was; the counter field reads *)
(* 0,0 at the end of every successful sensor tick that leaves the counter  *)
(* at 0, and before such a tick it reads what it read before the reset.    *)
(***************************************************************************)
C8_ResetShownByNextTick ==
    /\ [][ResetFires => (counter' = 0 /\ UNCHANGED display_digits)]_vars
    /\ [][(SuccessfulTick /\ counter' = 0) =>
             (display_digits'[3] = 0 /\ display_digits'[4] = 0)]_vars
    /\ [][~SuccessfulTick => UNCHANGED display_digits]_vars

\* a reset fired at counter 1, and the next successful tick (the object still
\* inside the zone) brought the counter field from 0,1 to 0,0
C8_Witness ==
    /\ pc = "poll" /\ sonar_result = "ok" /\ last_sensor_time = now
    /\ hold_resets = 1 /\ counter = 0 /\ run_incs = 1
    /\ display_digits[3] = 0 /\ display_digits[4] = 0

(***************************************************************************)
(* C9.  The display section refreshes exactly when now - last_display_time *)
(* >= DISPLAY_INTERVAL and the sensor section reads the sonar exactly when *)
(* now - last_sensor_time >= SENSOR_INTERVAL; a section that runs records  *)
(* now as its last-run time, one that does not leaves it alone.  now is    *)
(* the value polled at the top of the iteration, and only the poll writes  *)
(* it.                                                                     *)
(***************************************************************************)
C9_IntervalGates ==
    /\ [][pc = "display" =>
             IF now - last_display_time >= DISPLAY_INTERVAL
               THEN last_display_time' = now /\ last_shown' = current_digit
                    /\ current_digit' # current_digit
               ELSE UNCHANGED <<last_display_time, current_digit, digits,
                                segments, last_shown>>]_vars
    /\ [][pc = "sensor" =>
             IF now - last_sensor_time >= SENSOR_INTERVAL
               THEN last_sensor_time' = now
                    /\ sonar_result' \in {"ok", "RuntimeError"}
               ELSE UNCHANGED last_sensor_time /\ sonar_result' = "skipped"]_vars
    /\ [][pc # "display" => UNCHANGED last_display_time]_vars
    /\ [][pc # "sensor" => UNCHANGED last_sensor_time]_vars
    /\ [][pc # "poll" => UNCHANGED now]_vars

\* an iteration polled 1 ms after a refresh and exactly 100 ms after the last
\* sensor tick: the sensor ran, the display did not
C9_Witness ==
    /\ pc = "poll" /\ sonar_result = "ok"
    /\ last_sensor_time = now /\ last_sensor_time >= 2 * SENSOR_INTERVAL
    /\ last_display_time = now - 1

(***************************************************************************)
(* C10.  current_digit is always in 0..3, and after every call of          *)
(* refresh_display it is one past (modulo 4) the position that call        *)
(* served, whether the digit there is a number or Blank.                   *)
(***************************************************************************)
C10_PositionCycles ==
    /\ current_digit \in 0..3
    /\ last_shown \in -1..3
    /\ last_shown = -1 => current_digit = 0
    /\ last_shown # -1 => current_digit = (last_shown + 1) % 4

\* the call served position 3 showing a number after serving Blank positions,
\* and wrapped to position 0
C10_Witness ==
    /\ last_shown = 3 /\ current_digit = 0
    /\ display_digits[1] = BLANK /\ display_digits[4] # BLANK
    /\ digits[4]


---------------------------------------------------------------------------
(* Output levels of the display pins *)

\* line 115 ("turning off all digits"): the level of a digit that is not selected
DigitDeasserted == FALSE
\* line 126: the level refresh_display gives the one digit it selects
DigitAsserted == TRUE
\* line 119 ("turning off all segments"), pattern value 1 = OFF (line 58)
SegmentOff == TRUE

---------------------------------------------------------------------------
Clamp(x, lo, hi) == IF x < lo THEN lo ELSE IF x > hi THEN hi ELSE x

(***************************************************************************)
(* C12.  For all integers t and c, negative and above 99 included,         *)
(* combine_threshold_and_counter(t, c) returns exactly four values, each   *)
(* in 0..9 (none Blank), with 10*out[0] + out[1] = clamp(t, 0, 99) and     *)
(* 10*out[2] + out[3] = clamp(c, 0, 99).                                   *)
(***************************************************************************)
C12_PackClamps ==
    args.fn = "pack" =>
        /\ Len(display_digits) = 4
        /\ \A i \in 1..4 : display_digits[i] \in 0..9
        /\ 10 * display_digits[1] + display_digits[2] = Clamp(args.a, 0, 99)
        /\ 10 * display_digits[3] + display_digits[4] = Clamp(args.b, 0, 99)

\* a negative threshold and a counter above 99
C12_Witness ==
    /\ args = [fn |-> "pack", a |-> -1, b |-> 1000]
    /\ display_digits = <<0, 0, 9, 9>>

\* the position value of index i (1 = thousands .. 4 = ones)
Place(i) == CASE i = 1 -> 1000 [] i = 2 -> 100 [] i = 3 -> 10 [] i = 4 -> 1

(***************************************************************************)
(* C13.  For every integer v, update_display_digits(v) works on            *)
(* m = v mod 10000 and returns four values: a position is Blank exactly    *)
(* when it is not the ones position and it and every position to its left  *)
(* hold a zero digit of m; every other position holds the decimal digit of *)
(* m; the ones position is never Blank (m = 0 gives Blank, Blank, Blank,   *)
(* 0).                                                                     *)
(***************************************************************************)
C13_EncodeBlanksLeadingZeros ==
    args.fn = "encode" =>
        LET m == args.a % 10000
            dec(i) == (m \div Place(i)) % 10
            leading(i) == i # 4 /\ \A j \in 1..i : dec(j) = 0
        IN  /\ Len(display_digits) = 4
            /\ \A i \in 1..4 :
                   display_digits[i] = IF leading(i) THEN BLANK ELSE dec(i)
            /\ display_digits[4] # BLANK
            /\ m = 0 => display_digits = <<BLANK, BLANK, BLANK, 0>>

\* 10005 wraps to 5, and -9999 to 1: one digit behind three Blanks
C13_Witness ==
    /\ args.fn = "encode" /\ args.a = 10005
    /\ display_digits = <<BLANK, BLANK, BLANK, 5>>

\* the endpoints the threshold range is meant to have, in 1/100 cm (line 133)
ThresholdEndpoint(r) == IF r = 0 THEN 500 ELSE 9200

(***************************************************************************)
(* C16.  For raw potentiometer reading 0 the threshold distance that the   *)
(* detection comparison uses is 5.0 cm, and for the maximum raw reading    *)
(* 65535 it is 92.0 cm: a distance is detected exactly when it is at most  *)
(* that endpoint.                                                          *)
(***************************************************************************)
C16_ThresholdEndpoints ==
    args.fn = "detect" =>
        (object_inside <=> args.b <= ThresholdEndpoint(args.a))


---------------------------------------------------------------------------
(***************************************************************************)
(* C14.  At the end of every successful sensor tick display_digits is the  *)
(* packing of the threshold computed from that tick's raw potentiometer    *)
(* reading (whole inches, clamped to 0..99) and of the counter after that  *)
(* tick's detection step (clamped to 0..99), whether or not the change     *)
(* gate fired.  A counting edge adds 1 to the counter above 99 as well,    *)
(* and the counter field then shows 9,9.                                   *)
(***************************************************************************)
C14_DisplayFollowsEveryTick ==
    /\ [][SuccessfulTick =>
            LET T == Clamp(IntOf(threshold_in(raw')), 0, 99)
                C == Clamp(counter', 0, 99)
            IN  display_digits' = <<T \div 10, T % 10, C \div 10, C % 10>>]_vars
    /\ [][(SuccessfulTick /\ ~object_inside /\ object_inside') =>
            counter' = counter + 1]_vars
    /\ [](counter > 99 /\ pc = "poll" /\ sonar_result = "ok" =>
            display_digits[3] = 9 /\ display_digits[4] = 9)

\* the hundredth repetition has just been counted by the first tick of a
\* run: counter 100, counter field 9,9 beside the threshold field 3,6
C14_Witness ==
    /\ pc = "poll" /\ sonar_result = "ok" /\ last_sensor_time = now
    /\ counter = 100 /\ run_ticks = 1
    /\ raw = 65535 /\ last_pot_value = 65535
    /\ display_digits = <<3, 6, 9, 9>>


---------------------------------------------------------------------------
\* a step of the sensor section in which sonar.distance was read
ReadAttempted ==
    pc = "sensor" /\ pc' = "poll" /\ sonar_result' \in {"ok", "RuntimeError"}

(***************************************************************************)
(* C15.  A failed distance read is not fatal and is not retried early: the *)
(* failing tick records its clock value as last_sensor_time and the loop   *)
(* goes on with the next iteration; last_sensor_time changes in no other   *)
(* step than a tick that attempts the read; and every iteration, whatever  *)
(* the number of failures before it, attempts the read exactly when its    *)
(* clock value is at least last_sensor_time + SENSOR_INTERVAL (no retry    *)
(* before, no backoff after).                                              *)
(***************************************************************************)
C15_FailureKeepsSchedule ==
    /\ [][FailedTick => (last_sensor_time' = now /\ now' = now
                          /\ pc' = "poll")]_vars
    /\ [][last_sensor_time' # last_sensor_time => ReadAttempted]_vars
    /\ [][(pc = "sensor" /\ pc' # pc) =>
            (ReadAttempted <=> now - last_sensor_time >= SENSOR_INTERVAL)]_vars
    /\ [](pc = "poll" /\ fail_streak > 0 =>
            sonar_result \in {"RuntimeError", "skipped"})

\* two reads in a row have failed, the second exactly SENSOR_INTERVAL after
\* the first, and the display was refreshed in between
C15_Witness ==
    /\ pc = "poll" /\ sonar_result = "RuntimeError"
    /\ fail_streak = 2
    /\ now = 2 * SENSOR_INTERVAL /\ last_sensor_time = now
    /\ last_shown # -1


---------------------------------------------------------------------------
(***************************************************************************)
(* C17.  A tone is never extended: a beep that became active at clock time *)
(* tone_start is silenced by the first beep check that reads a clock value *)
(* of at least tone_start + beep_duration, whatever the sensor read in     *)
(* between.  pc = "display" is the point right after the beep check, and   *)
(* clock is the value that check has read.                                 *)
(***************************************************************************)
C17_ToneNeverExtended ==
    (pc = "display" /\ beep_active) => clock - tone_start < beep_duration


---------------------------------------------------------------------------
\* a step of the display section that calls refresh_display (lines 176-177)
RefreshStep == pc = "display" /\ pc' = "reset" /\ DisplayDue

(***************************************************************************)
(* C18.  In every reachable state of the running loop display_digits is a  *)
(* sequence of exactly four values, each in 0..9 and none the Blank        *)
(* sentinel; so at every call of refresh_display the value at the current  *)
(* position has a row in digit_patterns, and the Blank branch (line 122)   *)
(* is not taken: the call selects a digit.                                 *)
(***************************************************************************)
C18_LiveDisplayNeverBlank ==
    /\ [](/\ Len(display_digits) = 4
          /\ \A i \in 1..4 : display_digits[i] \in 0..9)
    /\ [][RefreshStep => (/\ display_digits[current_digit + 1] \in 0..9
                          /\ digits'[current_digit + 1] = DigitAsserted)]_vars

\* one repetition counted at the low threshold: the leading zero of the
\* counter field has just been shown at position 3 as a lit 0, not blanked
C18_Witness ==
    /\ pc = "reset" /\ last_shown = 2 /\ last_display_time = now
    /\ display_digits = <<0, 2, 0, 1>>
    /\ digits = <<FALSE, FALSE, TRUE, FALSE>>
    /\ segments = [i \in 1..7 |-> digit_patterns(0)[i] = 1]

(***************************************************************************)
(* C19.  In every reachable state between loop steps the beep flag and the *)
(* tone output agree: beep_active is true exactly when the duty cycle of   *)
(* the buzzer is not 0.                                                    *)
(***************************************************************************)
C19_FlagMatchesTone == beep_active <=> buzzer_duty_cycle # 0

\* a tone has just been started by a counting edge: flag and output both on
C19_Witness ==
    /\ pc = "poll" /\ sonar_result = "ok" /\ run_ticks = 1
    /\ beep_active /\ buzzer_duty_cycle = BEEP_DUTY
    /\ beep_start_time = clock /\ tone_start = clock

(***************************************************************************)
(* C20.  A reset sets the counter to 0 and leaves the detection state, the *)
(* beep state, the threshold, the multiplexer position, both last-run      *)
(* timestamps and the display contents unchanged.  So a tick taken while   *)
(* the state is Inside never counts, also right after a reset: the counter *)
(* leaves 0 only by a counting edge (Outside -> Inside), to 1.  A counting *)
(* edge in the iteration whose reset section has just fired (hold_len = 1  *)
(* in the sensor section) leaves the counter at 1.                         *)
(***************************************************************************)
C20_ResetTouchesOnlyCounter ==
    /\ [][ResetStep =>
            (/\ counter' = 0
             /\ UNCHANGED <<object_inside, beep_active, beep_start_time,
                            buzzer_frequency, buzzer_duty_cycle, raw,
                            last_pot_value, current_digit, last_display_time,
                            last_sensor_time, display_digits, digits,
                            segments>>)]_vars
    /\ [][(SuccessfulTick /\ object_inside) => counter' = counter]_vars
    /\ [][(counter = 0 /\ counter' # 0) => (CountStep /\ counter' = 1)]_vars
    /\ [][(CountStep /\ hold_len = 1) => counter' = 1]_vars
    /\ [](counter = zone_entries)

\* the object entered at 100 ms and was counted, a reset fired while it was
\* inside, and the ticks at 200 and 300 ms still read it inside: counter 0
C20_Witness ==
    /\ pc = "poll" /\ sonar_result = "ok" /\ last_sensor_time = now
    /\ object_inside /\ run_ticks = 3 /\ run_incs = 1
    /\ counter = 0 /\ display_digits[4] = 0

============================================================================
